---------------------------- MODULE Spec2Model ----------------------------
(***************************************************************************)
(* Dynamic graph factorization (dynamicgem/embedding/graphFac_dynamic.py)  *)
(* and the ranking metrics (dynamicgem/evaluation/metrics.py).             *)
(*                                                                         *)
(* Conventions.                                                            *)
(*  - A Python float is an exact rational <<n, d>> in lowest terms, d > 0. *)
(*    Rounding of IEEE arithmetic is not modelled.                         *)
(*  - A Python list is a sequence; Python index i is TLA+ index i + 1.     *)
(*  - A numpy 2-d array is a sequence of rows, a row a sequence of         *)
(*    entries; At(M, i, j) reads the 0-based entry M[i, j].                *)
(*  - A value that may be None is a record with a field kind:              *)
(*    "None" (Python None), "obj0d" (np.copy(None), a 0-d object array)    *)
(*    or "mat" (a 2-d float array with its rows).                          *)
(***************************************************************************)
EXTENDS Integers, Sequences, FiniteSets, TLC

(***************************************************************************)
(* Bounds of the model.                                                    *)
(***************************************************************************)
\* longest snapshot sequence handed to learn_embeddings
MaxL == 2
\* iteration counts n_iter, n_iter_sub handed to the constructor
IterCounts == {0, 1}
\* longest predicted-edge list handed to computePrecisionCurve and computeMAP
MaxPred == 3
\* longest predicted-edge list handed to the changed-graph metrics
MaxPredChanged == 2
\* longest removed-edge list handed to the changed-graph metrics
MaxRm == 1
\* largest max_k handed to the metrics
MaxK == 3
\* longest precision curve handed to getPrecisionReport
MaxCurve == 3
\* node counts of the snapshots handed to learn_embeddings
NodeCounts == {1, 2, 3}
\* node counts of the ground-truth graphs handed to the metrics
MetricNodeCounts == {0, 1, 2}
\* row counts of the initial embeddings handed to the constructor
InitRows == {2}
\* embedding dimensions d handed to the constructor
Dims == {1}
\* values numpy.random.randn may return for one entry
RandnVals == {-100, 100}

(***************************************************************************)
(* Exact arithmetic standing for Python float arithmetic.                  *)
(***************************************************************************)
Abs(x) == IF x < 0 THEN -x ELSE x

RECURSIVE GCD(_, _)
GCD(a, b) == IF b = 0 THEN a ELSE GCD(b, a % b)

\* the rational n/d in lowest terms with a positive denominator
Rat(n, d) ==
    LET g == GCD(Abs(n), Abs(d))
        s == IF d < 0 THEN -1 ELSE 1
    IN  <<(s * n) \div g, (s * d) \div g>>

RInt(n) == <<n, 1>>
RZero == <<0, 1>>
ROne == <<1, 1>>

RNeg(a) == <<-a[1], a[2]>>

RMul(a, b) ==
    LET g1 == GCD(Abs(a[1]), b[2])
        g2 == GCD(Abs(b[1]), a[2])
    IN  Rat((a[1] \div g1) * (b[1] \div g2), (a[2] \div g2) * (b[2] \div g1))

RAdd(a, b) ==
    LET g == GCD(a[2], b[2])
    IN  Rat(a[1] * (b[2] \div g) + b[1] * (a[2] \div g), (a[2] \div g) * b[2])

RSub(a, b) == RAdd(a, RNeg(b))

\* a / b for b # 0
RDiv(a, b) == RMul(a, Rat(b[2], b[1]))

RAbs(a) == <<Abs(a[1]), a[2]>>

RLt(a, b) == a[1] * b[2] < b[1] * a[2]

RECURSIVE RSum(_)
RSum(s) == IF s = <<>> THEN RZero ELSE RAdd(Head(s), RSum(Tail(s)))

RECURSIVE Pow10(_)
Pow10(k) == IF k = 0 THEN 1 ELSE 10 * Pow10(k - 1)

(***************************************************************************)
(* numpy vectors and matrices.                                             *)
(***************************************************************************)
\* the sequence s as an explicit tuple: TLC then evaluates each entry once
\* instead of at every read
Tup(s) == s \o <<>>

At(M, i, j) == M[i + 1][j + 1]
Row(M, i) == M[i + 1]
NRows(M) == Len(M)

VAdd(u, v) == Tup([c \in 1..Len(u) |-> RAdd(u[c], v[c])])
VSub(u, v) == Tup([c \in 1..Len(u) |-> RSub(u[c], v[c])])
VScale(a, u) == Tup([c \in 1..Len(u) |-> RMul(a, u[c])])
\* np.dot of two 1-d arrays
Dot(u, v) == RSum([c \in 1..Len(u) |-> RMul(u[c], v[c])])
\* np.zeros(d)
Zeros(d) == Tup([c \in 1..d |-> RZero])

\* np.eye(n)
Eye(n) == Tup([i \in 1..n |-> Tup([j \in 1..n |-> IF i = j THEN ROne ELSE RZero])])

\* np.dot of two square matrices of the same order
MatMul(P, Q) ==
    Tup([i \in 1..Len(P) |-> Tup([j \in 1..Len(Q[1]) |->
        RSum([k \in 1..Len(Q) |-> RMul(P[i][k], Q[k][j])])])])

RemoveAt(s, k) == Tup([x \in 1..(Len(s) - 1) |-> IF x < k THEN s[x] ELSE s[x + 1]])

\* determinant of the submatrix of M on the rows rs and columns cs
RECURSIVE Det(_, _, _)
Det(M, rs, cs) ==
    IF rs = <<>> THEN ROne
    ELSE RSum([k \in 1..Len(cs) |->
            RMul(IF k % 2 = 1 THEN M[rs[1]][cs[k]] ELSE RNeg(M[rs[1]][cs[k]]),
                 Det(M, Tail(rs), RemoveAt(cs, k)))])

Idx(n) == Tup([k \in 1..n |-> k])

\* np.linalg.inv(M) for a non-singular M (adjugate over determinant)
Inv(M) ==
    LET n == Len(M)
        dt == Det(M, Idx(n), Idx(n))
    IN  Tup([i \in 1..n |-> Tup([j \in 1..n |->
            RDiv(IF (i + j) % 2 = 0
                   THEN Det(M, RemoveAt(Idx(n), j), RemoveAt(Idx(n), i))
                   ELSE RNeg(Det(M, RemoveAt(Idx(n), j), RemoveAt(Idx(n), i))),
                 dt)])])

(***************************************************************************)
(* Values that may be None.                                                *)
(***************************************************************************)
NoneVal == [kind |-> "None", rows |-> <<>>]
\* np.copy(None): a 0-d object array, whose shape is ()
Obj0d == [kind |-> "obj0d", rows |-> <<>>]
Mat(M) == [kind |-> "mat", rows |-> M]

(***************************************************************************)
(* Inputs of the factorization.                                            *)
(***************************************************************************)
Nodes(n) == 0..(n - 1)

\* the node pairs i < j of an n-node graph, row-major
RECURSIVE PairsFrom(_, _, _)
PairsFrom(n, i, j) ==
    IF i >= n - 1 THEN <<>>
    ELSE IF j >= n THEN PairsFrom(n, i + 1, i + 2)
    ELSE <<<<i, j>>>> \o PairsFrom(n, i, j + 1)
Pairs(n) == PairsFrom(n, 0, 1)

Range(s) == {s[k] : k \in 1..Len(s)}

\* the edges that may be present in one direction only
OneWay(n) == {e \in Range(Pairs(n)) : e = <<0, 1>>}

\* a snapshot: a DiGraph on the nodes 0..n-1, every edge of weight 1, no
\* self-loops: the first k node pairs are joined in both directions, the
\* pairs in O from the lower to the higher node only
Snapshots(n) ==
    {[n |-> n, edges |-> U \cup {<<e[2], e[1]>> : e \in U} \cup O] :
        U \in {Range(SubSeq(Pairs(n), 1, k)) : k \in 0..Len(Pairs(n))},
        O \in SUBSET OneWay(n)}

AllSnapshots == UNION {Snapshots(n) : n \in NodeCounts}

\* learning rates, regularisation and smoothness coefficients handed to the
\* constructor
Etas == {ROne}
Regus == {ROne}
Kappas == {RInt(2)}

\* initial embeddings handed to the constructor: p rows, d columns
InitEmbeds(d) ==
    {Mat([i \in 1..p |-> [c \in 1..d |-> RInt(2)]]) : p \in InitRows}

\* graph_util.transform_DiGraph_to_adj: the dense adjacency matrix
transform_DiGraph_to_adj(g) ==
    Tup([i \in 1..g.n |-> Tup([j \in 1..g.n |->
        IF <<i - 1, j - 1>> \in g.edges THEN ROne ELSE RZero])])

\* np.allclose(A.T, A); the entries are 0 or 1, so the tolerance plays no part
IsSymmetric(A) ==
    \A i \in 1..Len(A) : \A j \in 1..Len(A) : A[i][j] = A[j][i]

\* np.where(A > 0) zipped: the index pairs of the positive entries, row-major
AllPairs(n) == Tup([k \in 1..(n * n) |-> <<(k - 1) \div n, (k - 1) % n>>])
IsPositive(A, e) == RLt(RZero, At(A, e[1], e[2]))
RECURSIVE FilterPairs(_, _)
FilterPairs(A, ps) ==
    IF ps = <<>> THEN <<>>
    ELSE IF IsPositive(A, Head(ps))
         THEN <<Head(ps)>> \o FilterPairs(A, Tail(ps))
         ELSE FilterPairs(A, Tail(ps))
EdgeList(A) == FilterPairs(A, AllPairs(Len(A)))

VARIABLES
    cfg,          \* the constructor's arguments d, eta, regu, n_iter, n_iter_sub, kappa, initEmbed
    L,            \* len(graphs) of the learn_embeddings call
    prevStepInfo, \* the flag of the learn_embeddings call
    graphs,       \* the snapshots of the call read so far
    eta,          \* self._eta
    kappas,       \* self._kappas
    X,            \* self._X
    Xs,           \* self._Xs
    node_num,     \* self._node_num
    num_iter,     \* self._num_iter
    pc,           \* position of the learn_embeddings call
    exc,          \* the exception that ended the call, "" if none
    t,            \* index of the snapshot being embedded
    prevEmbed,    \* argument prevEmbed of the running learn_embedding
    A,            \* local A of learn_embedding
    edgeList,     \* local edgeList of learn_embedding, zipped
    iter_id,      \* loop variable of learn_embedding
    pos,          \* number of entries of edgeList visited in this iteration
    delPhi,       \* locals delPhi1, delPhi2, delPhi3, delPhi of learn_embedding
    mcall,        \* the metrics call made: function and arguments
    mret          \* its result

facVars == <<cfg, L, prevStepInfo, graphs, eta, kappas, X, Xs, node_num, num_iter,
             pc, exc, t, prevEmbed, A, edgeList, iter_id, pos, delPhi>>
metVars == <<mcall, mret>>
vars == <<facVars, metVars>>

Unbound == [kind |-> "unbound"]
NoCall == [fn |-> "none"]


(***************************************************************************)
(* The smoothing weights of learn_embeddings (lines 149-158).              *)
(***************************************************************************)
Max(a, b) == IF a < b THEN b ELSE a

\* numpy broadcasting of two square operands of orders a and b
BroadcastOk(a, b) == a = b \/ a = 1 \/ b = 1
BAt(M, i, j) == IF Len(M) = 1 THEN M[1][1] ELSE M[i][j]

\* delX = abs(X_curr - X_prev)
DelX(X_curr, X_prev) ==
    LET m == Max(Len(X_curr), Len(X_prev))
    IN  Tup([i \in 1..m |-> Tup([j \in 1..m |->
            RAbs(RSub(BAt(X_curr, i, j), BAt(X_prev, i, j)))])])

beta == Rat(1, 100)

\* M_g = np.eye(X_curr.shape[0]) - beta * delX
M_g(n_curr, delX) ==
    Tup([i \in 1..Len(delX) |-> Tup([j \in 1..Len(delX) |->
        RSub(BAt(Eye(n_curr), i, j), RMul(beta, delX[i][j]))])])

\* M_l = beta * delX
M_l(delX) == Tup([i \in 1..Len(delX) |-> VScale(beta, delX[i])])

IsSingular(M) == Det(M, Idx(Len(M)), Idx(Len(M))) = RZero

\* S_sum = np.sum(S, 1) with S_sum[S_sum == 0] = 0.01
S_sum(n_curr, delX) ==
    LET S == MatMul(Inv(M_g(n_curr, delX)), M_l(delX))
    IN  Tup([i \in 1..Len(S) |->
            IF RSum(S[i]) = RZero THEN Rat(1, 100) ELSE RSum(S[i])])

\* self._kappa / S_sum
KappasOf(kappa, n_curr, delX) ==
    LET ss == S_sum(n_curr, delX)
    IN  Tup([i \in 1..Len(ss) |-> RDiv(kappa, ss[i])])

(***************************************************************************)
(* GraphFactorization: construction and one learn_embeddings call.         *)
(***************************************************************************)
FacInit ==
    /\ cfg \in [d : Dims, eta : Etas, regu : Regus, n_iter : IterCounts,
                n_iter_sub : IterCounts, kappa : Kappas,
                initEmbed : {NoneVal}]
               \cup UNION {[d : {d}, eta : Etas, regu : Regus, n_iter : IterCounts,
                            n_iter_sub : IterCounts, kappa : Kappas,
                            initEmbed : InitEmbeds(d)] : d \in Dims}
    /\ L \in 1..MaxL
    /\ prevStepInfo \in BOOLEAN
    /\ graphs = <<>>
    /\ eta = cfg.eta
    /\ kappas = [kind |-> "unset", v |-> <<>>]
    /\ X = NoneVal
    /\ Xs = <<>>
    /\ node_num = 0
    /\ num_iter = 0
    /\ pc = "start"
    /\ exc = ""
    /\ t = 0
    /\ prevEmbed = NoneVal
    /\ A = <<>>
    /\ edgeList = <<>>
    /\ iter_id = 0
    /\ pos = 0
    /\ delPhi = Unbound

Raise(name) ==
    /\ pc' = "raised"
    /\ exc' = name

\* learn_embeddings, lines 142-146: up to the call of learn_embedding(graphs[0], ...)
LearnEmbeddingsEntry ==
    /\ pc = "start"
    /\ \E g \in AllSnapshots : graphs' = <<g>>
    /\ kappas' = [kind |-> "scalar", v |-> <<cfg.kappa>>]
    /\ IF prevStepInfo /\ cfg.initEmbed.kind = "None"
       THEN \* self._initEmbed was never assigned
            /\ Raise("AttributeError")
            /\ UNCHANGED prevEmbed
       ELSE /\ pc' = "embed"
            /\ exc' = exc
            /\ prevEmbed' = IF prevStepInfo THEN cfg.initEmbed ELSE NoneVal
    /\ UNCHANGED <<cfg, L, prevStepInfo, eta, X, Xs, node_num, num_iter, t, A,
                   edgeList, iter_id, pos, delPhi, metVars>>

\* line 105: 0.01 * np.random.randn(node_num, d), R the matrix randn returned
RandX(R) ==
    Tup([i \in 1..Len(R) |-> Tup([c \in 1..Len(R[i]) |-> RMul(Rat(1, 100), RInt(R[i][c]))])])

\* the previous embedding is not copied
ColdStart(X0, prev) == X0

\* line 109: self._X[:prevEmbed.shape[0], :] = np.copy(prevEmbed)
WarmStart(X0, prev) ==
    Tup([i \in 1..Len(X0) |-> IF i <= Len(prev) THEN prev[i] ELSE X0[i]])

\* lines 104 and 110: the iteration budget of the step
NumIter(prev) == IF prev.kind = "None" THEN cfg.n_iter ELSE cfg.n_iter_sub

\* self._X shares its storage with the last stored embedding
XSharesStoredAlways == TRUE

\* whether self._X shares its storage with an entry of self._Xs: never, line
\* 105 binds self._X to a fresh array in every learn_embedding, line 109
\* copies the values of prevEmbed into it, and learn_embeddings stores
\* np.copy of the result (lines 144, 146, 160)
XSharesStored == FALSE

\* self._Xs after self._X has been written in place (lines 109 and 127)
XsAfterWrite(xs, newX) ==
    IF XSharesStored /\ xs # <<>> THEN [xs EXCEPT ![Len(xs)] = newX] ELSE xs

\* learn_embedding, lines 97-100, and the caller's append of np.copy(None)
\* (lines 144, 146, 160)
LearnEmbeddingNotSymmetric ==
    /\ pc = "embed"
    /\ ~IsSymmetric(transform_DiGraph_to_adj(graphs[t + 1]))
    /\ A' = transform_DiGraph_to_adj(graphs[t + 1])
    /\ Xs' = Append(Xs, Obj0d)
    /\ pc' = "loop"
    /\ UNCHANGED <<cfg, L, prevStepInfo, graphs, eta, kappas, X, node_num, num_iter,
                   exc, t, prevEmbed, edgeList, iter_id, pos, delPhi, metVars>>

\* learn_embedding, lines 97-110: the initialisation of X
LearnEmbeddingInit ==
    /\ pc = "embed"
    /\ LET A0 == transform_DiGraph_to_adj(graphs[t + 1])
           n == Len(A0)
       IN  /\ IsSymmetric(A0)
           /\ A' = A0
           /\ node_num' = n
           /\ edgeList' = EdgeList(A0)
           /\ \E R \in [1..n -> [1..cfg.d -> RandnVals]] :
                CASE prevEmbed.kind = "None" ->
                        /\ X' = Mat(RandX(R))
                        /\ num_iter' = cfg.n_iter
                        /\ pc' = "sgd"
                        /\ exc' = exc
                  [] prevEmbed.kind = "obj0d" ->
                        \* prevEmbed.shape is (): shape[0] is out of range
                        /\ X' = Mat(RandX(R))
                        /\ num_iter' = cfg.n_iter
                        /\ Raise("IndexError")
                  [] prevEmbed.kind = "mat" /\ Len(prevEmbed.rows) > n ->
                        \* the slice has n rows, prevEmbed more
                        /\ X' = Mat(RandX(R))
                        /\ num_iter' = cfg.n_iter
                        /\ Raise("ValueError")
                  [] OTHER ->
                        /\ X' = Mat(WarmStart(RandX(R), prevEmbed.rows))
                        /\ num_iter' = NumIter(prevEmbed)
                        /\ pc' = "sgd"
                        /\ exc' = exc
    /\ Xs' = IF pc' = "sgd" /\ prevEmbed.kind = "mat" THEN XsAfterWrite(Xs, X') ELSE Xs
    /\ iter_id' = 0
    /\ pos' = 0
    /\ delPhi' = Unbound
    /\ UNCHANGED <<cfg, L, prevStepInfo, graphs, eta, kappas, t, prevEmbed, metVars>>

\* line 121
DelPhi1(AA, XX, i, j) ==
    VScale(RNeg(RSub(At(AA, i, j), Dot(Row(XX, i), Row(XX, j)))), Row(XX, j))

\* line 122
DelPhi2(XX, i) == VScale(cfg.regu, Row(XX, i))

\* the coefficient of the smoothness term of row i, line 125
SmoothCoef(i) == cfg.kappa

\* lines 123-125
DelPhi3(XX, prev, i) ==
    IF prev.kind # "None" /\ i < Len(prev.rows)
    THEN VScale(SmoothCoef(i), VSub(Row(XX, i), Row(prev.rows, i)))
    ELSE Zeros(cfg.d)

\* the step is applied to every row
UpdateAllRows(XX, i, dphi) ==
    Tup([r \in 1..Len(XX) |-> VSub(XX[r], VScale(eta, dphi))])

\* line 127: self._X[i, :] -= self._eta * delPhi
UpdateRow(XX, i, dphi) ==
    Tup([r \in 1..Len(XX) |-> IF r = i + 1 THEN VSub(XX[r], VScale(eta, dphi)) ELSE XX[r]])

\* learn_embedding, lines 118-127: one entry (i, j) of edgeList
EdgeVisit ==
    /\ pc = "sgd"
    /\ iter_id < num_iter
    /\ pos < Len(edgeList)
    /\ LET i == edgeList[pos + 1][1]
           j == edgeList[pos + 1][2]
           d1 == DelPhi1(A, X.rows, i, j)
           d2 == DelPhi2(X.rows, i)
           d3 == DelPhi3(X.rows, prevEmbed, i)
           dphi == VAdd(VAdd(d1, d2), d3)
       IN  IF i >= j
           THEN UNCHANGED <<X, Xs, delPhi>>
           ELSE /\ delPhi' = [kind |-> "bound", delPhi1 |-> d1, delPhi2 |-> d2,
                              delPhi3 |-> d3, delPhi |-> dphi]
                /\ X' = Mat(UpdateRow(X.rows, i, dphi))
                /\ Xs' = XsAfterWrite(Xs, X')
    /\ pos' = pos + 1
    /\ UNCHANGED <<cfg, L, prevStepInfo, graphs, eta, kappas, node_num, num_iter,
                   pc, exc, t, prevEmbed, A, edgeList, iter_id, metVars>>

\* learn_embedding, lines 131-133 and the next round of the loop of line 113
IterEnd ==
    /\ pc = "sgd"
    /\ iter_id < num_iter
    /\ pos = Len(edgeList)
    /\ IF iter_id % 100 = 0 /\ delPhi.kind = "unbound"
       THEN \* the print reads delPhi, which no edge visit has assigned
            /\ Raise("UnboundLocalError")
            /\ UNCHANGED <<iter_id, pos>>
       ELSE /\ iter_id' = iter_id + 1
            /\ pos' = 0
            /\ UNCHANGED <<pc, exc>>
    /\ UNCHANGED <<cfg, L, prevStepInfo, graphs, eta, kappas, X, Xs, node_num, num_iter,
                   t, prevEmbed, A, edgeList, delPhi, metVars>>

\* learn_embedding, line 135, and the caller's append of np.copy of the result
\* (lines 144, 146, 160)
LearnEmbeddingReturn ==
    /\ pc = "sgd"
    /\ iter_id = num_iter
    /\ Xs' = Append(Xs, X)
    /\ pc' = "loop"
    /\ UNCHANGED <<cfg, L, prevStepInfo, graphs, eta, kappas, X, node_num, num_iter,
                   exc, t, prevEmbed, A, edgeList, iter_id, pos, delPhi, metVars>>

\* the learning rate is carried over unchanged
DecayDropped(e) == e

\* line 159
Decay(e) == RDiv(e, RInt(10))

\* learn_embeddings, lines 147-160: one round of the loop, up to the call of
\* learn_embedding(graphs[i], self._Xs[i - 1])
Smoothing ==
    /\ pc = "loop"
    /\ t + 1 < L
    /\ \E g \in AllSnapshots :
        /\ g.n >= graphs[t + 1].n
        /\ graphs' = Append(graphs, g)
        /\ LET X_curr == transform_DiGraph_to_adj(g)
               X_prev == transform_DiGraph_to_adj(graphs[t + 1])
               delX == DelX(X_curr, X_prev)
           IN  IF ~BroadcastOk(Len(X_curr), Len(X_prev))
               THEN \* operands could not be broadcast together
                    /\ Raise("ValueError")
                    /\ UNCHANGED <<kappas, eta, t, prevEmbed>>
               ELSE IF IsSingular(M_g(Len(X_curr), delX))
               THEN /\ Raise("LinAlgError")
                    /\ UNCHANGED <<kappas, eta, t, prevEmbed>>
               ELSE /\ kappas' = [kind |-> "vector",
                                  v |-> KappasOf(cfg.kappa, Len(X_curr), delX)]
                    /\ eta' = Decay(eta)
                    /\ t' = t + 1
                    /\ prevEmbed' = Xs[t + 1]
                    /\ pc' = "embed"
                    /\ exc' = exc
    /\ UNCHANGED <<cfg, L, prevStepInfo, X, Xs, node_num, num_iter, A, edgeList,
                   iter_id, pos, delPhi, metVars>>

\* learn_embeddings, line 162
LearnEmbeddingsReturn ==
    /\ pc = "loop"
    /\ t + 1 = L
    /\ pc' = "done"
    /\ UNCHANGED <<cfg, L, prevStepInfo, graphs, eta, kappas, X, Xs, node_num, num_iter,
                   exc, t, prevEmbed, A, edgeList, iter_id, pos, delPhi, metVars>>

MetIdle ==
    /\ mcall = NoCall
    /\ mret = <<>>

Init == FacInit /\ MetIdle

Next ==
    \/ LearnEmbeddingsEntry
    \/ LearnEmbeddingNotSymmetric
    \/ LearnEmbeddingInit
    \/ EdgeVisit
    \/ IterEnd
    \/ LearnEmbeddingReturn
    \/ Smoothing
    \/ LearnEmbeddingsReturn

Spec == Init /\ [][Next]_vars

(***************************************************************************)
(* Claims about learn_embeddings.                                          *)
(***************************************************************************)
Adj(k) == transform_DiGraph_to_adj(graphs[k])
Finished == pc \in {"done", "raised"}
HasEdge(g) == g.edges # {}
IsEmbedding(x, n, d) ==
    /\ x.kind = "mat"
    /\ Len(x.rows) = n
    /\ \A i \in 1..n : Len(x.rows[i]) = d

\* C1: for symmetric snapshots with non-decreasing node counts (here: each
\* with at least one edge, the call made without prevStepInfo), learn_embeddings
\* completes and returns exactly L embeddings, the t-th with N_t rows and d
\* columns.
C1_CompletesWithShapes ==
    (/\ Finished
     /\ ~prevStepInfo
     /\ \A k \in 1..Len(graphs) : IsSymmetric(Adj(k)) /\ HasEdge(graphs[k]))
    => /\ pc = "done"
       /\ Len(Xs) = L
       /\ \A k \in 1..L : IsEmbedding(Xs[k], graphs[k].n, cfg.d)

\* C2: in every step t >= 1 the smoothness gradient term applied to row i
\* (i < N_{t-1}) is kappas[i] * (X[i] - prevEmbed[i]), kappas the per-node
\* weights computed for that step.
C2_PerNodeKappa ==
    [][(/\ EdgeVisit
        /\ t >= 1
        /\ edgeList[pos + 1][1] < edgeList[pos + 1][2]
        /\ prevEmbed.kind = "mat"
        /\ edgeList[pos + 1][1] < Len(prevEmbed.rows))
       => delPhi'.delPhi3 =
            VScale(kappas.v[edgeList[pos + 1][1] + 1],
                   VSub(Row(X.rows, edgeList[pos + 1][1]),
                        Row(prevEmbed.rows, edgeList[pos + 1][1])))]_vars

\* C3: when snapshot k is not symmetric, no entry is appended for it to the
\* embedding sequence and no later snapshot is processed.
C3_AbortsOnAsymmetry ==
    \A k \in 1..Len(graphs) :
        ~IsSymmetric(Adj(k)) => Len(Xs) < k /\ Len(graphs) = k

RandomEntries == {Rat(v, 100) : v \in RandnVals}

\* the iteration budget of the step running
Budget == IF prevEmbed.kind = "None" THEN cfg.n_iter ELSE cfg.n_iter_sub

\* C12: learn_embedding called with a previous embedding of N_prev <= N rows
\* starts with the first N_prev rows of X equal to it and the other rows at
\* their random initial values, and runs n_iter_sub iterations; called
\* without one, all rows are random and it runs n_iter iterations.
C12_WarmStart ==
    [][/\ (/\ LearnEmbeddingInit
            /\ \/ prevEmbed.kind = "None"
               \/ prevEmbed.kind = "mat" /\ Len(prevEmbed.rows) <= graphs[t + 1].n)
           => LET N == graphs[t + 1].n
                  N_prev == IF prevEmbed.kind = "None" THEN 0 ELSE Len(prevEmbed.rows)
              IN  /\ pc' = "sgd"
                  /\ IsEmbedding(X', N, cfg.d)
                  /\ \A i \in 1..N_prev : X'.rows[i] = prevEmbed.rows[i]
                  /\ \A i \in (N_prev + 1)..N : \A c \in 1..cfg.d :
                        X'.rows[i][c] \in RandomEntries
                  /\ num_iter' = Budget
                  /\ iter_id' = 0
       /\ (EdgeVisit \/ IterEnd) => iter_id < Budget
       /\ LearnEmbeddingReturn => iter_id = Budget]_vars

\* a warm start on a snapshot with more nodes than the previous embedding has
\* rows, the two iteration budgets different
C12_Witness ==
    /\ pc = "sgd"
    /\ iter_id = 0
    /\ pos = 0
    /\ prevEmbed.kind = "mat"
    /\ Len(prevEmbed.rows) < Len(X.rows)
    /\ \A i \in 1..Len(prevEmbed.rows) : X.rows[i] = prevEmbed.rows[i]
    /\ X.rows[Len(X.rows)][1] \in RandomEntries
    /\ cfg.n_iter # cfg.n_iter_sub
    /\ num_iter = cfg.n_iter_sub

\* node r (rows counted from 1) has no neighbour of higher index in AA
NoHigherNeighbour(AA, r) ==
    \A j \in (r + 1)..Len(AA) : AA[r][j] = RZero

\* C13: a visit of an edge (i, j) with i < j changes row i of X only, by
\* -eta * delPhi, and a visit with i >= j changes nothing; so a row without
\* a neighbour of higher index is never changed while learn_embedding runs
\* and is returned with its initial value, for a warm-started row the row of
\* the previous embedding.
C13_OnlyRowI ==
    [][/\ EdgeVisit =>
            LET i == edgeList[pos + 1][1]
                j == edgeList[pos + 1][2]
            IN  /\ \A r \in 1..Len(X.rows) : r # i + 1 => X'.rows[r] = X.rows[r]
                /\ i >= j => X' = X
                /\ i < j => X'.rows[i + 1] =
                              VSub(X.rows[i + 1], VScale(eta, delPhi'.delPhi))
       /\ pc = "sgd" =>
            /\ X'.kind = "mat"
            /\ Len(X'.rows) = Len(X.rows)
            /\ \A r \in 1..Len(X.rows) :
                    NoHigherNeighbour(A, r) => X'.rows[r] = X.rows[r]
       /\ LearnEmbeddingReturn =>
            /\ Xs'[Len(Xs')] = X
            /\ prevEmbed.kind = "mat" =>
                    \A r \in 1..Len(prevEmbed.rows) :
                        NoHigherNeighbour(A, r) => X.rows[r] = prevEmbed.rows[r]]_vars

\* a cold-started step on a snapshot with the edge (0, 1) has run an
\* iteration: row 0 has moved, the row of the highest node has not
C13_Witness ==
    /\ pc = "loop"
    /\ Len(Xs) = 1
    /\ prevEmbed.kind = "None"
    /\ X.kind = "mat"
    /\ Xs[1] = X
    /\ iter_id = num_iter
    /\ num_iter >= 1
    /\ <<0, 1>> \in graphs[1].edges
    /\ X.rows[1][1] \notin RandomEntries
    /\ X.rows[Len(X.rows)][1] \in RandomEntries

C15_StepZeroStart ==
    (pc # "start" /\ t = 0) =>
        IF prevStepInfo /\ cfg.initEmbed.kind # "None"
        THEN prevEmbed = cfg.initEmbed
        ELSE prevEmbed = NoneVal /\ exc # "AttributeError"

(***************************************************************************)
(* The ranking metrics (dynamicgem/evaluation/metrics.py).                 *)
(* A predicted edge is a triple <<st, ed, w>>; a ground-truth graph is a   *)
(* record [n, edges] as above, with nodes 0..n-1.                          *)
(***************************************************************************)
Ok(v) == [exc |-> "", val |-> v]
Raised(name) == [exc |-> name, val |-> <<>>]

Min(a, b) == IF a < b THEN a ELSE b

\* true_digraph.has_edge(u, v)
has_edge(G, u, v) == <<u, v>> \in G.edges

\* true_digraph.out_degree(i)
out_degree(G, i) == Cardinality({e \in G.edges : e[1] = i})

\* sorted(..., key=lambda x: x[2], reverse=True): a stable sort, so equal
\* scores keep their original order
\* an insertion that puts a prediction before the earlier ones of equal score
RECURSIVE InsertDescUnstable(_, _)
InsertDescUnstable(x, s) ==
    IF s = <<>> THEN <<x>>
    ELSE IF Head(s)[3] > x[3] THEN <<Head(s)>> \o InsertDescUnstable(x, Tail(s))
    ELSE <<x>> \o s

RECURSIVE InsertDesc(_, _)
InsertDesc(x, s) ==
    IF s = <<>> THEN <<x>>
    ELSE IF Head(s)[3] >= x[3] THEN <<Head(s)>> \o InsertDesc(x, Tail(s))
    ELSE <<x>> \o s

RECURSIVE SortInto(_, _)
SortInto(acc, rest) ==
    IF rest = <<>> THEN acc ELSE SortInto(InsertDesc(Head(rest), acc), Tail(rest))

sorted_edges(predicted_edge_list) == SortInto(<<>>, predicted_edge_list)

\* lines 18-21 of computePrecisionCurve
CurveLength(predicted_edge_list, max_k) ==
    IF max_k = -1 THEN Len(predicted_edge_list)
    ELSE Min(max_k, Len(predicted_edge_list))

\* lines 28-34 and 161-167: the loop over range(n) from i on; acc is
\* <<precision_scores, delta_factors>>
RECURSIVE CurveLoop(_, _, _, _, _, _)
CurveLoop(sorted, G, i, n, correct_edge, acc) ==
    IF i >= n THEN <<correct_edge, acc>>
    ELSE LET hit == has_edge(G, sorted[i + 1][1], sorted[i + 1][2])
             c == IF hit THEN correct_edge + 1 ELSE correct_edge
         IN  CurveLoop(sorted, G, i + 1, n, c,
                       <<Append(acc[1], Rat(c, i + 1)),
                         Append(acc[2], IF hit THEN ROne ELSE RZero)>>)

\* computePrecisionCurve, lines 7-35
computePrecisionCurve(predicted_edge_list, true_digraph, max_k) ==
    CurveLoop(sorted_edges(predicted_edge_list), true_digraph, 0,
              CurveLength(predicted_edge_list, max_k), 0, <<<<>>, <<>>>>)[2]

\* every prediction is filed under every node
node_edges_unfiltered(predicted_edge_list, i) == predicted_edge_list

\* lines 50-54 and 197-201: the predictions whose source is node i, in order
node_edges(predicted_edge_list, i) ==
    SelectSeq(predicted_edge_list, LAMBDA x : x[1] = i)

\* lines 62-66 and 218-222: the average precision of one node's curve
AveragePrecision(curve) ==
    LET precision_rectified ==
            Tup([k \in 1..Len(curve[1]) |-> RMul(curve[1][k], curve[2][k])])
    IN  IF RSum(curve[2]) = RZero THEN RZero
        ELSE RDiv(RSum(precision_rectified), RSum(curve[2]))

\* every node is counted
CountedAll(G, i) == TRUE

\* line 60: the nodes counted in the divisor
Counted(G, i) == out_degree(G, i) # 0

\* lines 57-66: the loop over the nodes from i on; acc is <<sum(node_AP), count>>
RECURSIVE MAPLoop(_, _, _, _, _)
MAPLoop(predicted_edge_list, G, max_k, i, acc) ==
    IF i >= G.n THEN acc
    ELSE IF ~Counted(G, i)
         THEN MAPLoop(predicted_edge_list, G, max_k, i + 1, acc)
         ELSE MAPLoop(predicted_edge_list, G, max_k, i + 1,
                <<RAdd(acc[1],
                       AveragePrecision(
                         computePrecisionCurve(node_edges(predicted_edge_list, i),
                                               G, max_k))),
                  acc[2] + 1>>)

\* line 67 and line 223: sum(node_AP) / count
MeanOf(acc) ==
    IF acc[2] = 0 THEN Raised("ZeroDivisionError")
    ELSE Ok(RDiv(acc[1], RInt(acc[2])))

\* computeMAP, lines 38-67
computeMAP(predicted_edge_list, true_digraph, max_k) ==
    MeanOf(MAPLoop(predicted_edge_list, true_digraph, max_k, 0, <<RZero, 0>>))

\* a removed edge as handed to checkedges: a tuple <<st, ed, w>>
\* (tuple = TRUE, v the tuple) or a list of such tuples (tuple = FALSE)
TupleEdge(e) == [tuple |-> TRUE, v |-> e]

\* checkedges, lines 70-91
checkedges(edge_list, e) ==
    IF e.tuple
    THEN \E k \in 1..Len(edge_list) :
            edge_list[k][2] = e.v[2] /\ edge_list[k][1] = e.v[1]
    ELSE \E k \in 1..Len(edge_list) : \E x \in 1..Len(e.v) :
            edge_list[k][2] = e.v[x][2] /\ edge_list[k][1] = e.v[x][1]

\* every removed edge counts as correct
RemovedAlwaysCorrect(predicted_edge_list, e) == TRUE

\* the removed edge counts as a correct prediction, line 172
RemovedIsCorrect(predicted_edge_list, e) == ~checkedges(predicted_edge_list, e)

\* lines 170-177: the loop over the removed edges from j on
RECURSIVE RemovedLoop(_, _, _, _, _)
RemovedLoop(predicted_edge_list, node_edges_rm, j, correct_edge, acc) ==
    IF j >= Len(node_edges_rm) THEN acc
    ELSE LET hit == RemovedIsCorrect(predicted_edge_list, node_edges_rm[j + 1])
             c == IF hit THEN correct_edge + 1 ELSE correct_edge
         IN  RemovedLoop(predicted_edge_list, node_edges_rm, j + 1, c,
                 <<Append(acc[1], Rat(c, Len(predicted_edge_list) + j + 1)),
                   Append(acc[2], IF hit THEN ROne ELSE RZero)>>)

\* lines 161-167: the number of genuine predictions scored
ChangedPredCount(predicted_edge_list, node_edges_rm, max_k) ==
    Len(predicted_edge_list)

\* computePrecisionCurve_changed, lines 139-180; max_k is computed in lines
\* 151-154 and not read afterwards
computePrecisionCurve_changed(predicted_edge_list, true_digraph, node_edges_rm, max_k) ==
    LET first == CurveLoop(sorted_edges(predicted_edge_list), true_digraph, 0,
                           ChangedPredCount(predicted_edge_list, node_edges_rm, max_k),
                           0, <<<<>>, <<>>>>)
    IN  RemovedLoop(predicted_edge_list, node_edges_rm, 0, first[1], first[2])

\* lines 203-207: the removed edges whose translated source is node i, in order
node_edges_rm_of(node_dict, edges_rm0, i) ==
    LET mine == SelectSeq(edges_rm0, LAMBDA x : node_dict[x[1]] = i)
    IN  Tup([k \in 1..Len(mine) |->
            TupleEdge(<<node_dict[mine[k][1]], node_dict[mine[k][2]], 1>>)])

\* lines 212-222: the loop over the nodes from i on
RECURSIVE MAPChangedLoop(_, _, _, _, _, _, _)
MAPChangedLoop(predicted_edge_list, G, node_dict, edges_rm0, max_k, i, acc) ==
    IF i >= G.n THEN acc
    ELSE IF ~Counted(G, i)
         THEN MAPChangedLoop(predicted_edge_list, G, node_dict, edges_rm0, max_k,
                             i + 1, acc)
         ELSE MAPChangedLoop(predicted_edge_list, G, node_dict, edges_rm0, max_k, i + 1,
                <<RAdd(acc[1],
                       AveragePrecision(
                         computePrecisionCurve_changed(
                           node_edges(predicted_edge_list, i), G,
                           node_edges_rm_of(node_dict, edges_rm0, i), max_k))),
                  acc[2] + 1>>)

\* computeMAP_changed, lines 183-223; edges_rm0 is edges_rm[0]
computeMAP_changed(predicted_edge_list, true_digraph, node_dict, edges_rm0, max_k) ==
    MeanOf(MAPChangedLoop(predicted_edge_list, true_digraph, node_dict, edges_rm0,
                          max_k, 0, <<RZero, 0>>))

precision_pos == <<2, 10, 100, 200, 300, 500, 1000>>

\* list[i] of Python, a negative i counting from the end
PyIndex(list, i) == IF i >= 0 THEN list[i + 1] ELSE list[Len(list) + i + 1]

\* '%f' % x: x to six decimals, given as the number of millionths
FormatF(x) == (2 * x[1] * 1000000 + x[2]) \div (2 * x[2])

Dash == [dash |-> TRUE, millionths |-> 0]
Num(x) == [dash |-> FALSE, millionths |-> FormatF(x)]

\* line 106: the rank p has an entry in the curve
RankPresent(p, prec_curv) == p < Len(prec_curv)

\* getPrecisionReport, lines 101-110: the tab-separated fields of the result
getPrecisionReport(prec_curv, edge_num) ==
    LET temp_pos == precision_pos \o <<edge_num>>
    IN  Tup([k \in 1..Len(temp_pos) |->
            IF RankPresent(temp_pos[k], prec_curv)
            THEN Num(PyIndex(prec_curv, temp_pos[k] - 1))
            ELSE Dash])

(***************************************************************************)
(* Inputs of the metrics.                                                  *)
(***************************************************************************)
\* sequences over S of length at most n
SeqsUpTo(S, n) == UNION {[1..k -> S] : k \in 0..n}

\* ground-truth graphs: DiGraphs on the nodes 0..n-1 without self-loops
MetricGraphs ==
    UNION {{[n |-> n, edges |-> E] :
               E \in SUBSET {e \in Nodes(n) \X Nodes(n) : e[1] # e[2]}} :
           n \in MetricNodeCounts}

Scores == {1, 2}
PredEdges(G) == Nodes(G.n) \X Nodes(G.n) \X Scores
\* removed edges as computeMAP_changed builds them (line 207): weight 1
RmEdges(G) == Nodes(G.n) \X Nodes(G.n) \X {1}
Ks == {-1} \cup 0..MaxK
KsChanged == {-1, 0, 1}
CurveVals == {RZero, Rat(1, 2), Rat(2, 3), ROne}

\* node_dict: a renaming of the nodes
NodeDicts(n) == {f \in [Nodes(n) -> Nodes(n)] : \A a, b \in Nodes(n) : f[a] = f[b] => a = b}

FacIdle ==
    /\ cfg = [d |-> 1, eta |-> ROne, regu |-> ROne, n_iter |-> 0, n_iter_sub |-> 0,
              kappa |-> ROne, initEmbed |-> NoneVal]
    /\ L = 1
    /\ prevStepInfo = FALSE
    /\ graphs = <<>>
    /\ eta = cfg.eta
    /\ kappas = [kind |-> "unset", v |-> <<>>]
    /\ X = NoneVal
    /\ Xs = <<>>
    /\ node_num = 0
    /\ num_iter = 0
    /\ pc = "idle"
    /\ exc = ""
    /\ t = 0
    /\ prevEmbed = NoneVal
    /\ A = <<>>
    /\ edgeList = <<>>
    /\ iter_id = 0
    /\ pos = 0
    /\ delPhi = Unbound

CallComputePrecisionCurve ==
    /\ mcall = NoCall
    /\ \E G \in MetricGraphs : \E pred \in SeqsUpTo(PredEdges(G), MaxPred) : \E k \in Ks :
        /\ mcall' = [fn |-> "computePrecisionCurve", predicted_edge_list |-> pred,
                     true_digraph |-> G, max_k |-> k]
        /\ mret' = Ok(computePrecisionCurve(pred, G, k))
    /\ UNCHANGED facVars

CallComputeMAP ==
    /\ mcall = NoCall
    /\ \E G \in MetricGraphs : \E pred \in SeqsUpTo(PredEdges(G), MaxPred) : \E k \in Ks :
        /\ mcall' = [fn |-> "computeMAP", predicted_edge_list |-> pred,
                     true_digraph |-> G, max_k |-> k]
        /\ mret' = computeMAP(pred, G, k)
    /\ UNCHANGED facVars

CallComputePrecisionCurveChanged ==
    /\ mcall = NoCall
    /\ \E G \in MetricGraphs : \E pred \in SeqsUpTo(PredEdges(G), MaxPredChanged) :
       \E rm \in SeqsUpTo(RmEdges(G), MaxRm) : \E k \in KsChanged :
        /\ mcall' = [fn |-> "computePrecisionCurve_changed", predicted_edge_list |-> pred,
                     true_digraph |-> G, node_edges_rm |-> rm, max_k |-> k]
        /\ mret' = Ok(computePrecisionCurve_changed(
                        pred, G, Tup([j \in 1..Len(rm) |-> TupleEdge(rm[j])]), k))
    /\ UNCHANGED facVars

CallComputeMAPChanged ==
    /\ mcall = NoCall
    /\ \E G \in MetricGraphs : \E pred \in SeqsUpTo(PredEdges(G), MaxPredChanged) :
       \E rm \in SeqsUpTo(Nodes(G.n) \X Nodes(G.n), MaxRm) :
       \E nd \in NodeDicts(G.n) : \E k \in KsChanged :
        /\ mcall' = [fn |-> "computeMAP_changed", predicted_edge_list |-> pred,
                     true_digraph |-> G, node_dict |-> nd, edges_rm0 |-> rm, max_k |-> k]
        /\ mret' = computeMAP_changed(pred, G, nd, rm, k)
    /\ UNCHANGED facVars

CallGetPrecisionReport ==
    /\ mcall = NoCall
    /\ \E curve \in SeqsUpTo(CurveVals, MaxCurve) : \E edge_num \in 0..(MaxCurve + 1) :
        /\ mcall' = [fn |-> "getPrecisionReport", prec_curv |-> curve, edge_num |-> edge_num]
        /\ mret' = Ok(getPrecisionReport(curve, edge_num))
    /\ UNCHANGED facVars

MetInit == FacIdle /\ MetIdle

MetNext ==
    \/ CallComputePrecisionCurve
    \/ CallComputeMAP
    \/ CallComputePrecisionCurveChanged
    \/ CallComputeMAPChanged
    \/ CallGetPrecisionReport

SpecMetrics == MetInit /\ [][MetNext]_vars

(***************************************************************************)
(* Claims about the metrics.                                               *)
(***************************************************************************)
\* the ranking of a prediction list: position a holds the index of the
\* prediction ranked a-th, scores descending, equal scores in list order
Ranking(pred) ==
    CHOOSE r \in [1..Len(pred) -> 1..Len(pred)] :
        /\ \A a, b \in 1..Len(pred) : r[a] = r[b] => a = b
        /\ \A a, b \in 1..Len(pred) :
            a < b => \/ pred[r[a]][3] > pred[r[b]][3]
                     \/ pred[r[a]][3] = pred[r[b]][3] /\ r[a] < r[b]

Hits(delta, i) == Cardinality({j \in 1..i : delta[j] = ROne})

IsMatch(G, e) == <<e[1], e[2]>> \in G.edges

ExpectedLength(n, k) == IF k = -1 THEN n ELSE IF k < n THEN k ELSE n

\* C5: computePrecisionCurve returns two lists of length min(k, len(predictions))
\* (len(predictions) for k = -1); with the predictions ranked by descending
\* score, equal scores in their original order, indicator i is 1.0 iff the
\* i-th ranked pair is an edge of G, and precision i is the number of
\* indicators 1.0 in positions 0..i over i+1.
C5_PrecisionCurve ==
    mcall.fn = "computePrecisionCurve" =>
        LET pred == mcall.predicted_edge_list
            G == mcall.true_digraph
            m == ExpectedLength(Len(pred), mcall.max_k)
            prec == mret.val[1]
            delta == mret.val[2]
            r == Ranking(pred)
        IN  /\ Len(prec) = m
            /\ Len(delta) = m
            /\ \A i \in 1..m :
                /\ delta[i] = IF IsMatch(G, pred[r[i]]) THEN ROne ELSE RZero
                /\ prec[i] = Rat(Hits(delta, i), i)

\* two predictions of equal score, the first a miss and the second a match,
\* are scored in their original order
C5_Witness ==
    /\ mcall.fn = "computePrecisionCurve"
    /\ Len(mcall.predicted_edge_list) = 2
    /\ mcall.predicted_edge_list[1][3] = mcall.predicted_edge_list[2][3]
    /\ mcall.max_k = 2
    /\ mret.val = <<<<RZero, Rat(1, 2)>>, <<RZero, ROne>>>>

RECURSIVE RSumSet(_, _)
RSumSet(f, S) ==
    IF S = {} THEN RZero
    ELSE LET x == CHOOSE y \in S : TRUE
         IN  RAdd(f[x], RSumSet(f, S \ {x}))

\* the average precision of the node i: over the positions of its own
\* precision curve that are matches, the mean of the precisions there
NodeAP(pred, G, k, i) ==
    LET own == SelectSeq(pred, LAMBDA x : x[1] = i)
        curve == computePrecisionCurve(own, G, k)
        H == {j \in 1..Len(curve[2]) : curve[2][j] = ROne}
    IN  IF H = {} THEN RZero
        ELSE RDiv(RSumSet(curve[1], H), RInt(Cardinality(H)))

\* C6: computeMAP returns the mean, over exactly the nodes with nonzero
\* out-degree in the ground truth, of each node's average precision.
C6_MeanOverNodesWithOutEdges ==
    (mcall.fn = "computeMAP" /\ mret.exc = "") =>
        LET pred == mcall.predicted_edge_list
            G == mcall.true_digraph
            S == {i \in Nodes(G.n) : \E e \in G.edges : e[1] = i}
            ap == [i \in S |-> NodeAP(pred, G, mcall.max_k, i)]
        IN  /\ S # {}
            /\ mret.val = RDiv(RSumSet(ap, S), RInt(Cardinality(S)))

\* a ground truth with one node that has out-edges and one that has none,
\* the latter with a prediction of its own
C6_Witness ==
    /\ mcall.fn = "computeMAP"
    /\ mcall.true_digraph = [n |-> 2, edges |-> {<<0, 1>>}]
    /\ mcall.predicted_edge_list = <<<<1, 0, 2>>, <<0, 0, 2>>, <<0, 1, 1>>>>
    /\ mcall.max_k = -1
    /\ mret = Ok(Rat(1, 2))

\* C7: computeMAP and computeMAP_changed never raise: for every ground truth
\* (here: with at least one node), also one where all nodes have zero
\* out-degree, they return a number.
C7_NeverRaises ==
    (mcall.fn \in {"computeMAP", "computeMAP_changed"} /\ mcall.true_digraph.n >= 1)
        => mret.exc = ""

\* C8: computePrecisionCurve_changed returns lists of length
\* min(max_k, len(predictions) + len(removed edges)), and of length
\* len(predictions) + len(removed edges) for max_k = -1.
C8_ChangedLength ==
    mcall.fn = "computePrecisionCurve_changed" =>
        LET m == ExpectedLength(Len(mcall.predicted_edge_list) + Len(mcall.node_edges_rm),
                                mcall.max_k)
        IN  Len(mret.val[1]) = m /\ Len(mret.val[2]) = m

IsPredicted(pred, e) ==
    \E x \in 1..Len(pred) : pred[x][1] = e[1] /\ pred[x][2] = e[2]

\* C9: in computePrecisionCurve_changed every removed edge is ranked after
\* all genuine predictions and is a match iff no predicted edge has its
\* (source, target) pair; the genuine predictions are scored as
\* computePrecisionCurve scores them.
C9_RemovedEdges ==
    mcall.fn = "computePrecisionCurve_changed" =>
        LET pred == mcall.predicted_edge_list
            rm == mcall.node_edges_rm
            lp == Len(pred)
            prec == mret.val[1]
            delta == mret.val[2]
            plain == computePrecisionCurve(pred, mcall.true_digraph, -1)
        IN  /\ Len(prec) = lp + Len(rm)
            /\ Len(delta) = lp + Len(rm)
            /\ SubSeq(prec, 1, lp) = plain[1]
            /\ SubSeq(delta, 1, lp) = plain[2]
            /\ \A j \in 1..Len(rm) :
                /\ delta[lp + j] = IF IsPredicted(pred, rm[j]) THEN RZero ELSE ROne
                /\ prec[lp + j] = Rat(Hits(delta, lp + j), lp + j)

\* a removed edge that is also predicted is scored as a miss
C9_Witness ==
    /\ mcall.fn = "computePrecisionCurve_changed"
    /\ Len(mcall.predicted_edge_list) = 2
    /\ Len(mcall.node_edges_rm) = 1
    /\ IsPredicted(mcall.predicted_edge_list, mcall.node_edges_rm[1])
    /\ IsMatch(mcall.true_digraph, mcall.predicted_edge_list[1])
    /\ mret.val[2][3] = RZero
    /\ mret.val[1][3] = Rat(Hits(mret.val[2], 2), 3)

\* C10: for each rank p in precision_pos and then p = edge_num,
\* getPrecisionReport emits the precision at rank p (curve entry p-1) whenever
\* the curve has at least p entries, and "-" only when the curve is shorter.
C10_ReportRanks ==
    mcall.fn = "getPrecisionReport" =>
        LET curve == mcall.prec_curv
            ranks == precision_pos \o <<mcall.edge_num>>
        IN  /\ Len(mret.val) = Len(ranks)
            /\ \A k \in 1..Len(ranks) :
                ranks[k] >= 1 =>
                    mret.val[k] = IF Len(curve) >= ranks[k]
                                  THEN Num(curve[ranks[k]])
                                  ELSE Dash

\* the lists that hold the entries of s1 and of s2, each in its own order
RECURSIVE Interleavings(_, _)
Interleavings(s1, s2) ==
    IF s1 = <<>> THEN {s2}
    ELSE IF s2 = <<>> THEN {s1}
    ELSE {<<Head(s1)>> \o r : r \in Interleavings(Tail(s1), s2)}
         \cup {<<Head(s2)>> \o r : r \in Interleavings(s1, Tail(s2))}

\* the lists made of the predictions of the source nodes in S, those of each
\* node in the order they have in pred
RECURSIVE MergeSources(_, _)
MergeSources(pred, S) ==
    IF S = {} THEN {<<>>}
    ELSE LET i == CHOOSE x \in S : TRUE
             own == SelectSeq(pred, LAMBDA x : x[1] = i)
         IN  UNION {Interleavings(own, r) : r \in MergeSources(pred, S \ {i})}

\* the lists with the same triples as pred that keep, for every source node,
\* the relative order of that node's predictions
SameNodeOrder(pred) ==
    MergeSources(pred, {pred[a][1] : a \in 1..Len(pred)})

\* C11: computeMAP is invariant to reordering predictions of different
\* source nodes: every list with the same triples that keeps the relative
\* order of each source node's predictions gets the same result.
C11_SourceOrderInvariant ==
    mcall.fn = "computeMAP" =>
        \A q \in SameNodeOrder(mcall.predicted_edge_list) :
            computeMAP(q, mcall.true_digraph, mcall.max_k) = mret

\* predictions of two source nodes with equal scores, one a match: the list
\* has another order of the same kind, and the result is not zero
C11_Witness ==
    /\ mcall.fn = "computeMAP"
    /\ mcall.true_digraph = [n |-> 2, edges |-> {<<0, 1>>, <<1, 0>>}]
    /\ mcall.predicted_edge_list = <<<<0, 0, 2>>, <<1, 0, 2>>, <<0, 1, 2>>>>
    /\ mcall.max_k = 1
    /\ Cardinality(SameNodeOrder(mcall.predicted_edge_list)) = 3
    /\ mret = Ok(Rat(1, 2))

=============================================================================
